---- MODULE Spec2Model ----
(***************************************************************************)
(* Model of bevy_microphone (src/src/lib.rs): the capture session          *)
(* AudioManager, its capture thread, the input stream's data callback      *)
(* (accumulate, resample, encode, send), the kill and stop flags, and the  *)
(* consumer operations that take packets from the channel and decode them. *)
(*                                                                         *)
(* A sample is identified by its position in the device's capture order    *)
(* (1, 2, 3, ...), so that buffers and frames are sequences of positions.  *)
(***************************************************************************)
EXTENDS Integers, Sequences, FiniteSets, TLC

VARIABLES
    settings,          \* AudioSettings: [frame_size, sample_rate]
    device,            \* the resolved input device, or NoDevice
    cfg,               \* the result of device.default_input_config()
    kill,              \* AudioManager.kill (shared AtomicBool)
    stop,              \* AudioManager.stop (shared AtomicBool)
    sessionAlive,      \* the AudioManager value (and its Receiver) is not yet dropped
    chan,              \* packets queued in the mpsc channel
    txAlive,           \* the Sender (owned by the thread closure, then the callback) exists
    threadPc,          \* position of the capture thread
    sample,            \* thread local `sample`: the device's native rate
    time,              \* thread local `time`: pacing interval in microseconds
    input_frame_size,  \* thread local `input_frame_size`
    frame_size,        \* thread local `frame_size` (shadows settings.frame_size)
    resamp,            \* thread local `resamp`: "unset", "none" or "some"
    streamAlive,       \* the cpal input stream exists (built, not yet dropped)
    cbPc,              \* position of the data callback: "idle", "running", "panicked"
    extra,             \* the accumulation buffer `extra`
    delivered,         \* number of samples the device has delivered so far
    discarded,         \* some delivered or buffered sample was dropped by the stop branch
    resumeMark,        \* samples at positions <= resumeMark were delivered before the last stop(false) that cleared a set flag
    encoded,           \* history: one entry per encoder.encode_float invocation
    sent,              \* history: one entry per tx.send invocation
    sendErrs,          \* history: the number of tx.send invocations that returned Err
    sleepsSinceKill,   \* history: sleeps the pacing loop completed after kill was stored
    consPc,            \* the consumer operation in progress, or "idle"
    taken,             \* history: the packets taken from the channel, each with the operation that took it and its sink invocations
    decoded,           \* the latest decode() call: its packet and its sink invocations
    resPc              \* the AudioResource call of a second thread: "idle", the operation waiting for the mutex, or "locked"

vars == << settings, device, cfg, kill, stop, sessionAlive, chan, txAlive,
           threadPc, sample, time, input_frame_size, frame_size, resamp,
           streamAlive, cbPc, extra, delivered, discarded,
           resumeMark, encoded, sent, sendErrs, sleepsSinceKill, consPc,
           taken, decoded, resPc >>

configVars == << settings, device, cfg >>
threadVars == << threadPc, sample, time, input_frame_size, frame_size, resamp >>
callbackVars == << cbPc, extra, delivered, discarded, encoded, sent, sendErrs >>
consumerVars == << consPc, taken, decoded, resPc >>

(***************************************************************************)
(* Bounds of the model.                                                    *)
(***************************************************************************)
\* The device delivers at most MaxSamples samples in a behaviour.
MaxSamples == 41
\* In SpecLowRate the device delivers at most MaxLowSamples samples and the
\* encoder is invoked at most MaxEncodes times.
MaxLowSamples == 7
MaxEncodes == 2

(***************************************************************************)
(* SampleRate and FrameSize.                                               *)
(***************************************************************************)
SampleRates == {"SR48", "SR24", "SR16", "SR12", "SR8"}

FrameSizes == {"FS2880", "FS1920", "FS960", "FS480", "FS240", "FS120"}

SampleRate_get_number(r) ==
    CASE r = "SR48" -> 48
      [] r = "SR24" -> 24
      [] r = "SR16" -> 16
      [] r = "SR12" -> 12
      [] r = "SR8" -> 8

FrameSize_get_number(f) ==
    CASE f = "FS2880" -> 2880
      [] f = "FS1920" -> 1920
      [] f = "FS960" -> 960
      [] f = "FS480" -> 480
      [] f = "FS240" -> 240
      [] f = "FS120" -> 120

\* usize is at least 32 bits wide on every target that has threads: a
\* product fits when it is below 2^32.
FitsUsize(n) == n >= 0 /\ (n \div 65536) < 65536

\* Mutant of size: the divisor of get_input is used.
sizeByHz(f, r) == (FrameSize_get_number(f) * SampleRate_get_number(r)) \div 48000

size(f, r) == (FrameSize_get_number(f) * SampleRate_get_number(r)) \div 48

FrameSize_time(f) == (FrameSize_get_number(f) * 1000) \div 48

get_input(f, rate) == (rate * FrameSize_get_number(f)) \div 48000

\* The fields of AudioSettings.
AudioSettingsFields ==
    {"input_device", "channels", "frame_size", "sample_rate", "application"}

\* Whether a settings value can enable or disable capture.
HasEnabledFlag == "enabled" \in AudioSettingsFields

(***************************************************************************)
(* Device resolution.                                                      *)
(***************************************************************************)
NoDevice == "NoDevice"
NoName == "NoName"
\* Results of device.default_input_config(): Err, or Ok with the native rate.
ConfigErr == [ok |-> FALSE, sample_rate |-> 0]
ConfigOk(rate) == [ok |-> TRUE, sample_rate |-> rate]

\* Names of the input devices a host may enumerate.
HostDeviceNames == {"mic"}
\* What settings.input_device may hold: None, or a name.
InputDeviceChoices == {NoName, "mic", "other"}

\* `inputs`: the host's enumerated input devices; `default`: the host's
\* default input device or NoDevice.
ResolveDevice(input, inputs, default) ==
    IF input # NoName /\ input \in inputs THEN input ELSE default

\* The hosts the model considers: the default device, when there is one, is
\* one of the enumerated devices.
Hosts ==
    { h \in [inputs : SUBSET HostDeviceNames, default : HostDeviceNames \cup {NoDevice}] :
        h.default = NoDevice \/ h.default \in h.inputs }

ResolvedDevices ==
    { ResolveDevice(i, h.inputs, h.default) : i \in InputDeviceChoices, h \in Hosts }

(***************************************************************************)
(* Program constants and the configurations the specifications draw from. *)
(***************************************************************************)
\* let mut buffer = [0f32; 2880]
BufferLen == 2880
\* let out = &mut [0.0; 2048]
DecodeBufferLen == 2048

\* Native rates of the devices of Spec: they keep the frames short.
DeviceRates == {8000}
\* Native rates of the devices of SpecFrames.
AllDeviceRates == {8000, 16000, 22050, 44100, 48000, 96000}

\* Outcomes of the library calls whose result the code inspects.
FftNewResults == {"Ok", "Err"}
EncoderNewResults == {"Ok", "Err"}
BuildStreamResults == {"Ok", "Err"}
PlayResults == {"Ok", "Err"}
ProcessResults == {"Ok", "Err"}
EncodeResults == {"Ok", "Zero", "Err"}

Terminated == {"exited", "panicked"}

\* No decode() call was made yet.
NoCall == [data |-> [id |-> 0, n |-> 0, valid |-> FALSE], sink |-> << [kind |-> "none", len |-> 0] >>]

\* The sizes of the chunks the device delivers in Spec, whose frames are 20
\* samples long: half a frame, a frame, a frame and a sample, two frames,
\* two frames and a sample.
ChunkSizes == {10, 20, 21, 40, 41}

(***************************************************************************)
(* Initial states: the state right after AudioManager::new returned: the   *)
(* flags are clear, the channel is empty and the thread is spawned.        *)
(***************************************************************************)
InitSession ==
    /\ kill = FALSE
    /\ stop = FALSE
    /\ sessionAlive = TRUE
    /\ chan = << >>
    /\ txAlive = TRUE
    /\ threadPc = "start"
    /\ sample = 0
    /\ time = 0
    /\ input_frame_size = 0
    /\ frame_size = 0
    /\ resamp = "unset"
    /\ streamAlive = FALSE
    /\ cbPc = "idle"
    /\ extra = << >>
    /\ delivered = 0
    /\ discarded = FALSE
    /\ resumeMark = 0
    /\ encoded = << >>
    /\ sent = << >>
    /\ sendErrs = 0
    /\ sleepsSinceKill = 0
    /\ consPc = "idle"
    /\ taken = << >>
    /\ decoded = NoCall
    /\ resPc = "idle"

Init ==
    /\ settings \in [frame_size : {"FS120"}, sample_rate : {"SR8", "SR12"}]
    /\ device \in ResolvedDevices
    /\ cfg \in { ConfigOk(r) : r \in DeviceRates } \cup {ConfigErr}
    /\ InitSession

(***************************************************************************)
(* The capture thread.                                                     *)
(***************************************************************************)
\* The thread closure returns before a stream exists: its Sender is dropped.
ThreadReturns ==
    /\ threadPc' = "exited"
    /\ txAlive' = FALSE

\* Mutant of IsSome: the thread goes on without a device.
IsSomeAlways(d) == TRUE

\* if let Some(device) = device
IsSome(d) == d # NoDevice

\* Mutant of ThreadStart: the thread runs only for settings that enable
\* capture.
ThreadStartIfEnabled ==
    /\ HasEnabledFlag
    /\ threadPc = "start"
    /\ IF IsSome(device)
         THEN threadPc' = "config" /\ UNCHANGED txAlive
         ELSE ThreadReturns
    /\ UNCHANGED << configVars, kill, stop, sessionAlive, chan, sample, time,
                    input_frame_size, frame_size, resamp, streamAlive,
                    callbackVars, resumeMark, sleepsSinceKill,
                    consumerVars >>

\* if let Some(device) = device ... else warn!("input device not found")
ThreadStart ==
    /\ threadPc = "start"
    /\ IF IsSome(device)
         THEN threadPc' = "config" /\ UNCHANGED txAlive
         ELSE ThreadReturns
    /\ UNCHANGED << configVars, kill, stop, sessionAlive, chan, sample, time,
                    input_frame_size, frame_size, resamp, streamAlive,
                    callbackVars, resumeMark, sleepsSinceKill,
                    consumerVars >>

\* if let Ok(cfg) = device.default_input_config(), then the frame lengths.
ThreadConfig ==
    /\ threadPc = "config"
    /\ IF ~cfg.ok
         THEN /\ ThreadReturns
              /\ UNCHANGED << sample, time, input_frame_size, frame_size >>
         ELSE /\ sample' = cfg.sample_rate
              /\ time' = FrameSize_time(settings.frame_size)
              /\ input_frame_size' = get_input(settings.frame_size, cfg.sample_rate)
              /\ frame_size' = size(settings.frame_size, settings.sample_rate)
              /\ threadPc' = "resampler"
              /\ UNCHANGED txAlive
    /\ UNCHANGED << configVars, kill, stop, sessionAlive, chan, resamp,
                    streamAlive, callbackVars, resumeMark,
                    sleepsSinceKill, consumerVars >>

\* Mutant of NeedsResampler: a resampler is made only for a faster device.
NeedsResamplerFaster(rate, r) == rate > SampleRate_get_number(r) * 1000

\* The condition under which a resampler is constructed.
NeedsResampler(rate, r) == rate # SampleRate_get_number(r) * 1000

\* let mut resamp = if sample != sample_rate * 1000 { Fft::new(..) } else { None }
ThreadResampler ==
    /\ threadPc = "resampler"
    /\ IF NeedsResampler(sample, settings.sample_rate)
         THEN \E res \in FftNewResults :
                IF res = "Ok"
                  THEN resamp' = "some" /\ threadPc' = "encoder" /\ UNCHANGED txAlive
                  ELSE ThreadReturns /\ UNCHANGED resamp
         ELSE resamp' = "none" /\ threadPc' = "encoder" /\ UNCHANGED txAlive
    /\ UNCHANGED << configVars, kill, stop, sessionAlive, chan, sample, time,
                    input_frame_size, frame_size, streamAlive, callbackVars,
                    resumeMark, sleepsSinceKill, consumerVars >>

\* Encoder::new(..).unwrap(): an Err panics the thread, which unwinds and
\* drops the Sender.
ThreadEncoder ==
    /\ threadPc = "encoder"
    /\ \E res \in EncoderNewResults :
         IF res = "Ok"
           THEN threadPc' = "build" /\ UNCHANGED txAlive
           ELSE threadPc' = "panicked" /\ txAlive' = FALSE
    /\ UNCHANGED << configVars, kill, stop, sessionAlive, chan, sample, time,
                    input_frame_size, frame_size, resamp, streamAlive,
                    callbackVars, resumeMark, sleepsSinceKill,
                    consumerVars >>

\* match device.build_input_stream(..): the callback closure, which owns the
\* Sender, is dropped with the failed build.
ThreadBuild ==
    /\ threadPc = "build"
    /\ \E res \in BuildStreamResults :
         IF res = "Ok"
           THEN threadPc' = "play" /\ streamAlive' = TRUE /\ UNCHANGED txAlive
           ELSE ThreadReturns /\ UNCHANGED streamAlive
    /\ UNCHANGED << configVars, kill, stop, sessionAlive, chan, sample, time,
                    input_frame_size, frame_size, resamp, callbackVars,
                    resumeMark, sleepsSinceKill, consumerVars >>

\* if let Ok(_s) = stream.play() { loop .. } else { error!(..) }: on Err the
\* closure returns and the stream is dropped.
ThreadPlay ==
    /\ threadPc = "play"
    /\ \E res \in PlayResults :
         threadPc' = IF res = "Ok" THEN "poll" ELSE "dropping"
    /\ UNCHANGED << configVars, kill, stop, sessionAlive, chan, txAlive, sample,
                    time, input_frame_size, frame_size, resamp, streamAlive,
                    callbackVars, resumeMark, sleepsSinceKill,
                    consumerVars >>

\* Mutant of PollNext: the pacing loop ignores the flag.
PollNextIgnoresKill(k) == "sleep"

\* What the pacing loop does on the value it loads from the kill flag.
PollNext(k) == IF k THEN "dropping" ELSE "sleep"

\* if kill2.load(Relaxed) { return; }
ThreadPoll ==
    /\ threadPc = "poll"
    /\ threadPc' = PollNext(kill)
    /\ UNCHANGED << configVars, kill, stop, sessionAlive, chan, txAlive, sample,
                    time, input_frame_size, frame_size, resamp, streamAlive,
                    callbackVars, resumeMark, sleepsSinceKill,
                    consumerVars >>

\* thread::sleep(Duration::from_micros(time))
ThreadSleep ==
    /\ threadPc = "sleep"
    /\ threadPc' = "poll"
    /\ sleepsSinceKill' =
         IF kill /\ sleepsSinceKill < 2 THEN sleepsSinceKill + 1 ELSE sleepsSinceKill
    /\ UNCHANGED << configVars, kill, stop, sessionAlive, chan, txAlive, sample,
                    time, input_frame_size, frame_size, resamp, streamAlive,
                    callbackVars, resumeMark, consumerVars >>

\* Mutant of StreamAfterReturn: the stream outlives the thread closure.
StreamLeaked == TRUE

\* Whether the stream still exists once the thread closure has returned.
StreamAfterReturn == FALSE

\* The returning closure drops the stream, and with it the callback closure
\* and its Sender; the drop waits for a callback invocation in progress.
ThreadDropStream ==
    /\ threadPc = "dropping"
    /\ cbPc # "running"
    /\ threadPc' = "exited"
    /\ streamAlive' = StreamAfterReturn
    /\ txAlive' = FALSE
    /\ UNCHANGED << configVars, kill, stop, sessionAlive, chan, sample, time,
                    input_frame_size, frame_size, resamp, callbackVars,
                    resumeMark, sleepsSinceKill, consumerVars >>

(***************************************************************************)
(* The input stream's data callback.                                       *)
(***************************************************************************)
\* The chunk of n samples the device delivers next.
Chunk(n) == [i \in 1..n |-> delivered + i]

\* Mutant of Clear: the stop branch returns without clearing the buffer.
ClearNothing(buf) == buf

\* extra.clear()
Clear(buf) == << >>

\* extra.extend(data)
Extend(buf, data) == buf \o data

\* &extra[..input_frame_size]
FrameInput(buf, n) == SubSeq(buf, 1, n)

\* Mutant of Drain: the frame stays in the buffer.
DrainNothing(buf, n) == buf

\* extra.drain(..input_frame_size)
Drain(buf, n) == SubSeq(buf, n + 1, Len(buf))

\* Mutant of FrameReady: a frame is taken only once more than a frame is buffered.
FrameReadyStrict(buf, n) == Len(buf) > n

\* while extra.len() >= input_frame_size
FrameReady(buf, n) == Len(buf) >= n

\* The slice handed to encoder.encode_float: &buffer[..frame_size] holding
\* the resampled block, or the buffered samples themselves.
EncoderInput(buf) ==
    IF resamp = "some"
      THEN [src |-> FrameInput(buf, input_frame_size), len |-> frame_size,
            resampled |-> TRUE]
      ELSE [src |-> FrameInput(buf, input_frame_size),
            len |-> Len(FrameInput(buf, input_frame_size)), resampled |-> FALSE]

\* The packet the encoder makes of its k-th input, a frame of n samples.
Packet(k, n) == [id |-> k, n |-> n, valid |-> TRUE]

\* tx.send(..): the packet is queued while the Receiver exists; otherwise
\* send returns an Err, which the callback ignores.
Send(q, p) == IF sessionAlive THEN Append(q, p) ELSE q

\* What tx.send(..) returns.
SendResult == IF sessionAlive THEN "Ok" ELSE "Err"

\* Mutant of AfterSend: the result of send is unwrapped.
AfterSendUnwrap(res, pc) == IF res = "Err" THEN "panicked" ELSE pc

\* let _ = tx.send(..): the callback goes on to pc whatever send returned.
AfterSend(res, pc) == pc

\* Mutant of Sendable: a zero-length result is sent too.
SendableZero(eres) == eres # "Err"

\* if let Ok(len) = encoder.encode_float(..) && len != 0: "Ok" stands for a
\* non-zero length, "Zero" for Ok(0).
Sendable(eres) == eres = "Ok"

\* Samples at positions <= resumeMark are the ones delivered before the
\* stop(false) call; the mark is kept only while the buffer holds one.
Mark(m, buf) == IF buf # << >> /\ buf[1] <= m THEN m ELSE 0

\* The stop check and extra.extend(data): the invocation returns at once
\* when the flag is set, and when no full frame is buffered.
CallbackEnter(n) ==
    /\ streamAlive
    /\ threadPc # "dropping"
    /\ cbPc = "idle"
    /\ delivered' = delivered + n
    /\ IF stop
         THEN /\ extra' = Clear(extra)
              /\ cbPc' = "idle"
              /\ discarded' = TRUE
         ELSE /\ extra' = Extend(extra, Chunk(n))
              /\ cbPc' = IF FrameReady(extra', input_frame_size) THEN "running" ELSE "idle"
              /\ UNCHANGED discarded
    /\ resumeMark' = Mark(resumeMark, extra')
    /\ UNCHANGED << configVars, kill, stop, sessionAlive, chan, txAlive,
                    threadVars, streamAlive, encoded, sent, sendErrs,
                    sleepsSinceKill, consumerVars >>

\* One iteration of the while loop: resample, encode, send, drain.  A
\* failed process_into_buffer, or a frame_size beyond the resample buffer,
\* panics the callback.
CallbackIter ==
    /\ cbPc = "running"
    /\ FrameReady(extra, input_frame_size)
    /\ \E pres \in ProcessResults, eres \in EncodeResults :
         IF resamp = "some" /\ (pres = "Err" \/ frame_size > BufferLen)
           THEN /\ cbPc' = "panicked"
                /\ UNCHANGED << extra, encoded, sent, sendErrs, chan, resumeMark >>
           ELSE LET buf == EncoderInput(extra)
                    pkt == Packet(Len(encoded) + 1, buf.len)
                IN  /\ encoded' = Append(encoded,
                           [src |-> buf.src, len |-> buf.len,
                            resampled |-> buf.resampled,
                            stale |-> resumeMark > 0 /\ \E i \in 1..Len(buf.src) : buf.src[i] <= resumeMark,
                            nonzero |-> eres = "Ok"])
                    /\ IF Sendable(eres)
                         THEN /\ chan' = Send(chan, pkt)
                              /\ sent' = Append(sent, pkt)
                              /\ sendErrs' = IF SendResult = "Err" THEN sendErrs + 1 ELSE sendErrs
                         ELSE UNCHANGED << chan, sent, sendErrs >>
                    /\ extra' = Drain(extra, input_frame_size)
                    /\ LET pc == IF FrameReady(extra', input_frame_size)
                                   THEN "running" ELSE "idle"
                       IN  cbPc' = IF Sendable(eres) THEN AfterSend(SendResult, pc)
                                                     ELSE pc
                    /\ resumeMark' = Mark(resumeMark, extra')
    /\ UNCHANGED << configVars, kill, stop, sessionAlive, txAlive, threadVars,
                    streamAlive, delivered, discarded,
                    sleepsSinceKill, consumerVars >>

(***************************************************************************)
(* The session's operations.                                               *)
(***************************************************************************)
\* Operations taking &self may also be called from inside the sink of
\* try_recv_audio or recv_audio.
CanCallShared == sessionAlive /\ consPc \in {"idle", "try_recv_audio", "recv_audio"}

\* pub fn kill(&self)
Kill ==
    /\ CanCallShared
    /\ kill' = TRUE
    /\ UNCHANGED << configVars, stop, sessionAlive, chan, txAlive, threadVars,
                    streamAlive, callbackVars, resumeMark,
                    sleepsSinceKill, consumerVars >>

\* pub fn stop(&self, b: bool)
Stop(b) ==
    /\ CanCallShared
    /\ stop' = b
    /\ resumeMark' = IF stop /\ ~b THEN Mark(delivered, extra) ELSE resumeMark
    /\ UNCHANGED << configVars, kill, sessionAlive, chan, txAlive, threadVars,
                    streamAlive, callbackVars, sleepsSinceKill, consumerVars >>

\* impl Drop for AudioManager: kill(), then the fields are dropped, the
\* Receiver and the packets still queued with it.
DropSession ==
    /\ sessionAlive
    /\ consPc = "idle"
    /\ kill' = TRUE
    /\ sessionAlive' = FALSE
    /\ chan' = << >>
    /\ UNCHANGED << configVars, stop, txAlive, threadVars, streamAlive,
                    callbackVars, resumeMark, sleepsSinceKill,
                    consumerVars >>

TryOps == {"try_recv_audio", "try_recv_audio_decode"}
RecvOps == {"recv_audio", "recv_audio_decode"}
DecodeOps == {"try_recv_audio_decode", "recv_audio_decode"}

\* Mutant of Received: the newest queued packet is returned.
ReceivedLast(q) == q[Len(q)]

\* The packet rx.try_recv() or rx.recv() returns from a non-empty queue.
Received(q) == Head(q)

\* decoder.decode_float(&data, out, false): -1 stands for an Err.  A valid
\* packet decodes to the frame it was made of, when the output slice holds it.
DecodeFloat(data, cap) ==
    IF ~data.valid \/ data.n > cap THEN -1 ELSE data.n

\* Mutant of DecodeSink: the sink is invoked on a failed decode too, with an
\* empty slice.
DecodeSinkAlways(data) ==
    LET len == DecodeFloat(data, DecodeBufferLen)
    IN  IF len # -1 /\ len # 0 THEN << [kind |-> "pcm", len |-> len] >>
                                ELSE << [kind |-> "pcm", len |-> 0] >>

\* if let Ok(len) = decode_float(..) && len != 0 { f(&mut out[..len]) }:
\* the sink invocations, each with the length of its slice.
DecodeSink(data) ==
    LET len == DecodeFloat(data, DecodeBufferLen)
    IN  IF len # -1 /\ len # 0 THEN << [kind |-> "pcm", len |-> len] >> ELSE << >>

\* f(data)
PacketSink(data) == << [kind |-> "packet", len |-> data.n] >>

\* What an operation does with a packet it took from the channel.
Handle(op, data) ==
    IF op \in DecodeOps THEN DecodeSink(data) ELSE PacketSink(data)

\* A call of one of the four receive operations begins.
ConsumerCall(op) ==
    /\ sessionAlive
    /\ consPc = "idle"
    /\ consPc' = op
    /\ UNCHANGED << configVars, kill, stop, sessionAlive, chan, txAlive,
                    threadVars, streamAlive, callbackVars, resumeMark,
                    sleepsSinceKill, taken, decoded, resPc >>

\* The loop body of a receive operation on the packet it received.
Take(op, q) ==
    /\ taken' = Append(taken, [pkt |-> Received(q), op |-> op,
                               sink |-> Handle(op, Received(q))])
    /\ chan' = Tail(q)

\* Mutant of TryRecvStep: try_recv waits like recv while the queue is empty
\* and the Sender exists.
TryRecvStepBlocking ==
    /\ consPc \in TryOps
    /\ chan # << >> \/ ~txAlive
    /\ IF chan # << >>
         THEN Take(consPc, chan) /\ UNCHANGED consPc
         ELSE consPc' = "idle" /\ UNCHANGED << taken, chan >>
    /\ UNCHANGED << configVars, kill, stop, sessionAlive, txAlive, threadVars,
                    streamAlive, callbackVars, resumeMark, sleepsSinceKill,
                    decoded, resPc >>

\* while let Ok(data) = self.rx.try_recv() { .. }: one evaluation of the
\* loop condition, and the loop body when it yields a packet.
TryRecvStep ==
    /\ consPc \in TryOps
    /\ IF chan # << >>
         THEN Take(consPc, chan) /\ UNCHANGED consPc
         ELSE consPc' = "idle" /\ UNCHANGED << taken, chan >>
    /\ UNCHANGED << configVars, kill, stop, sessionAlive, txAlive, threadVars,
                    streamAlive, callbackVars, resumeMark, sleepsSinceKill,
                    decoded, resPc >>

\* Mutant of RecvStep: recv returns Err on an empty queue at once.
RecvStepEager ==
    /\ consPc \in RecvOps
    /\ IF chan # << >>
         THEN Take(consPc, chan) /\ UNCHANGED consPc
         ELSE consPc' = "idle" /\ UNCHANGED << taken, chan >>
    /\ UNCHANGED << configVars, kill, stop, sessionAlive, txAlive, threadVars,
                    streamAlive, callbackVars, resumeMark, sleepsSinceKill,
                    decoded, resPc >>

\* while let Ok(data) = self.rx.recv() { .. }: recv blocks while the queue
\* is empty and the Sender exists, and returns Err once it is dropped.
RecvStep ==
    /\ consPc \in RecvOps
    /\ chan # << >> \/ ~txAlive
    /\ IF chan # << >>
         THEN Take(consPc, chan) /\ UNCHANGED consPc
         ELSE consPc' = "idle" /\ UNCHANGED << taken, chan >>
    /\ UNCHANGED << configVars, kill, stop, sessionAlive, txAlive, threadVars,
                    streamAlive, callbackVars, resumeMark, sleepsSinceKill,
                    decoded, resPc >>

\* A packet that is no output of the encoder.
CorruptPacket == [id |-> 0, n |-> 0, valid |-> FALSE]

\* The packets a caller can pass to decode(): those try_recv_audio or
\* recv_audio gave to its sink, and a corrupt one.
HeldPackets ==
    { taken[i].pkt : i \in { j \in 1..Len(taken) : taken[j].op \notin DecodeOps } }
      \cup {CorruptPacket}

\* pub fn decode(&mut self, data, f)
DecodeCall(data) ==
    /\ sessionAlive
    /\ consPc = "idle"
    /\ decoded' = [data |-> data, sink |-> DecodeSink(data)]
    /\ UNCHANGED << configVars, kill, stop, sessionAlive, chan, txAlive,
                    threadVars, streamAlive, callbackVars, resumeMark,
                    sleepsSinceKill, consPc, taken, resPc >>

(***************************************************************************)
(* AudioResource: the session behind a Mutex.  Each of its operations is   *)
(* self.lock().operation(..): the guard lives until the operation returns. *)
(* The consumer of consPc is one thread calling through the wrapper; resPc *)
(* is the call of a second thread.                                         *)
(***************************************************************************)
ResourceStopOps == {"stop(true)", "stop(false)"}
ResourceOps == ResourceStopOps \cup {"decode"} \cup TryOps

\* self.0.lock() returns at once: no wrapper call is in progress.
LockFree == consPc = "idle" /\ resPc # "locked"

\* The second thread calls an operation of AudioResource and reaches lock().
ResourceCall(op) ==
    /\ sessionAlive
    /\ resPc = "idle"
    /\ resPc' = op
    /\ UNCHANGED << configVars, kill, stop, sessionAlive, chan, txAlive,
                    threadVars, streamAlive, callbackVars, resumeMark,
                    sleepsSinceKill, consPc, taken, decoded >>

\* AudioResource::stop: lock, AudioManager::stop, unlock.
ResourceStop ==
    /\ resPc \in ResourceStopOps
    /\ LockFree
    /\ stop' = (resPc = "stop(true)")
    /\ resumeMark' = IF stop /\ ~stop' THEN Mark(delivered, extra) ELSE resumeMark
    /\ resPc' = "idle"
    /\ UNCHANGED << configVars, kill, sessionAlive, chan, txAlive, threadVars,
                    streamAlive, callbackVars, sleepsSinceKill, consPc, taken,
                    decoded >>

\* AudioResource::decode: lock, AudioManager::decode, unlock.
ResourceDecode ==
    /\ resPc = "decode"
    /\ LockFree
    /\ \E data \in HeldPackets :
         decoded' = [data |-> data, sink |-> DecodeSink(data)]
    /\ resPc' = "idle"
    /\ UNCHANGED << configVars, kill, stop, sessionAlive, chan, txAlive,
                    threadVars, streamAlive, callbackVars, resumeMark,
                    sleepsSinceKill, consPc, taken >>

\* AudioResource::try_recv_audio / try_recv_audio_decode: lock().
ResourceTryAcquire ==
    /\ resPc \in TryOps
    /\ LockFree
    /\ consPc' = resPc
    /\ resPc' = "locked"
    /\ UNCHANGED << configVars, kill, stop, sessionAlive, chan, txAlive,
                    threadVars, streamAlive, callbackVars, resumeMark,
                    sleepsSinceKill, taken, decoded >>

\* The loop of the try_recv operation the second thread runs under the
\* lock; its return unlocks.
ResourceTryStep ==
    /\ resPc = "locked"
    /\ consPc \in TryOps
    /\ IF chan # << >>
         THEN Take(consPc, chan) /\ UNCHANGED << consPc, resPc >>
         ELSE consPc' = "idle" /\ resPc' = "idle" /\ UNCHANGED << taken, chan >>
    /\ UNCHANGED << configVars, kill, stop, sessionAlive, txAlive, threadVars,
                    streamAlive, callbackVars, resumeMark, sleepsSinceKill,
                    decoded >>

\* AudioResource::recv_audio / recv_audio_decode by the first thread: lock().
ResourceRecvCall(op) == LockFree /\ ConsumerCall(op)

\* resource.lock().kill()
ResourceKill == LockFree /\ Kill

\* The drop of the AudioResource, which no thread is calling into.
ResourceDrop == resPc = "idle" /\ DropSession

(***************************************************************************)
(* The specification of a session.                                         *)
(***************************************************************************)
Thread ==
    \/ ThreadStart
    \/ ThreadConfig
    \/ ThreadResampler
    \/ ThreadEncoder
    \/ ThreadBuild
    \/ ThreadPlay
    \/ ThreadPoll
    \/ ThreadSleep
    \/ ThreadDropStream

Callback ==
    \/ \E n \in ChunkSizes : delivered + n <= MaxSamples /\ CallbackEnter(n)
    \/ CallbackIter

Consumer ==
    \/ \E op \in TryOps \cup RecvOps : ConsumerCall(op)
    \/ TryRecvStep
    \/ RecvStep

Owner ==
    \/ Kill
    \/ \E b \in BOOLEAN : Stop(b)
    \/ DropSession

Next == Thread \/ Callback \/ Consumer \/ Owner

Spec == Init /\ [][Next]_vars

(***************************************************************************)
(* The specification of the frame lengths: every frame size and sample     *)
(* rate, with devices of the usual native rates.  The device delivers one  *)
(* chunk of one or two frames; the packets made of it are received and     *)
(* decoded.                                                                *)
(***************************************************************************)
\* The device of SpecFrames delivers one chunk, of this many frames.
FrameCounts == {1, 2}

InitFrames ==
    /\ settings \in [frame_size : FrameSizes, sample_rate : SampleRates]
    /\ device \in HostDeviceNames
    /\ cfg \in { ConfigOk(r) : r \in AllDeviceRates }
    /\ InitSession

NextFrames ==
    \/ ThreadStart
    \/ ThreadConfig
    \/ ThreadResampler
    \/ ThreadEncoder
    \/ ThreadBuild
    \/ ThreadPlay
    \/ \E k \in FrameCounts : delivered = 0 /\ CallbackEnter(k * input_frame_size)
    \/ CallbackIter
    \/ \E op \in TryOps : chan # << >> /\ ConsumerCall(op)
    \/ TryRecvStep
    \/ \E data \in HeldPackets : DecodeCall(data)

SpecFrames == InitFrames /\ [][NextFrames]_vars

(***************************************************************************)
(* The specification of short frames: a device whose native rate is so low *)
(* that a frame is a few samples long, or none: the value the device       *)
(* reports is used as it is.  The device delivers chunks of several sizes  *)
(* and the stop flag is set and cleared.                                   *)
(***************************************************************************)
\* At 300 Hz get_input is 0 for FS120, 1 for FS240, 3 for FS480 and 6 for
\* FS960.
LowDeviceRates == {300}
LowFrameSizes == {"FS120", "FS240", "FS480", "FS960"}
LowChunkSizes == {1, 2, 3, 7}

InitLowRate ==
    /\ settings \in [frame_size : LowFrameSizes, sample_rate : {"SR8"}]
    /\ device \in HostDeviceNames
    /\ cfg \in { ConfigOk(r) : r \in LowDeviceRates }
    /\ InitSession

NextLowRate ==
    \/ Thread
    \/ \E n \in LowChunkSizes : delivered + n <= MaxLowSamples /\ CallbackEnter(n)
    \/ Len(encoded) < MaxEncodes /\ CallbackIter
    \/ \E b \in BOOLEAN : Stop(b)

SpecLowRate == InitLowRate /\ [][NextLowRate]_vars

(***************************************************************************)
(* The specification of a session whose threads are scheduled: the capture *)
(* thread keeps running until it returns, and a callback invocation runs   *)
(* to its end.                                                             *)
(***************************************************************************)
FairSpec == Spec /\ WF_vars(Thread) /\ WF_vars(CallbackIter)

(***************************************************************************)
(* The same, with a consumer that is scheduled too: a recv that can return *)
(* a packet or an Err does so.                                             *)
(***************************************************************************)
FairSpecRecv == FairSpec /\ WF_vars(RecvStep)

(***************************************************************************)
(* The specification of a session used through AudioResource by two        *)
(* threads: one calls the blocking receive operations, the other the rest. *)
(* Every thread is scheduled, and a thread waiting at lock() gets the      *)
(* mutex if it is free again and again.                                    *)
(***************************************************************************)
\* The sizes of the chunks the device delivers in SpecResource.
ResourceChunkSizes == {20}

NextResource ==
    \/ Thread
    \/ \E n \in ResourceChunkSizes : delivered + n <= MaxSamples /\ CallbackEnter(n)
    \/ CallbackIter
    \/ \E op \in RecvOps : ResourceRecvCall(op)
    \/ RecvStep
    \/ \E op \in ResourceOps : ResourceCall(op)
    \/ ResourceStop
    \/ ResourceDecode
    \/ ResourceTryAcquire
    \/ ResourceTryStep
    \/ ResourceKill
    \/ ResourceDrop

SpecResource == Init /\ [][NextResource]_vars

FairSpecResource ==
    /\ SpecResource
    /\ WF_vars(Thread)
    /\ WF_vars(CallbackIter)
    /\ WF_vars(RecvStep)
    /\ SF_vars(ResourceStop)
    /\ SF_vars(ResourceDecode)
    /\ SF_vars(ResourceTryAcquire)
    /\ WF_vars(ResourceTryStep)

(***************************************************************************)
(* Properties.                                                             *)
(***************************************************************************)
\* The k-th full frame of a capture of frames n samples long.
FrameAt(k, n) == [i \in 1..n |-> (k - 1) * n + i]

\* C1: as long as the stop branch has dropped no sample, whenever the
\* callback has returned after the device delivered T samples in chunks of
\* any sizes, it has invoked the encoder exactly T div L times, the k-th
\* time on the k-th L samples in capture order, and the accumulation buffer
\* holds the last T mod L samples delivered.
AccumulationCorrect ==
    (cbPc = "idle" /\ ~discarded /\ input_frame_size > 0) =>
        /\ Len(encoded) = delivered \div input_frame_size
        /\ Len(extra) = delivered % input_frame_size
        /\ \A k \in 1..Len(encoded) : encoded[k].src = FrameAt(k, input_frame_size)
        /\ extra = [i \in 1..Len(extra) |-> Len(encoded) * input_frame_size + i]

\* Witness of C1: 41 samples were delivered with 20-sample frames: two
\* frames were encoded and one sample is left in the buffer.
AccumulationWitness ==
    /\ cbPc = "idle"
    /\ ~discarded
    /\ ~stop
    /\ input_frame_size = 20
    /\ delivered = 41
    /\ Len(encoded) = 2
    /\ Len(extra) = 1

\* The packets taken from the channel so far, in order.
TakenPackets == [i \in 1..Len(taken) |-> taken[i].pkt]

\* C2: the packets the receive operations took from the channel are a
\* prefix of the packets sent, in the same order, and while the session
\* exists the packets taken followed by the packets queued are exactly the
\* packets sent; try_recv_audio and recv_audio hand each packet taken to
\* the sink once.
OrderPreserved ==
    /\ Len(taken) <= Len(sent)
    /\ \A i \in 1..Len(taken) : taken[i].pkt = sent[i]
    /\ sessionAlive => TakenPackets \o chan = sent
    /\ \A i \in 1..Len(taken) :
         taken[i].op \notin DecodeOps =>
             taken[i].sink = << [kind |-> "packet", len |-> taken[i].pkt.n] >>

\* Witness of C2: one callback invocation sent two packets and two
\* different operations took them.
OrderWitness ==
    /\ delivered = 41
    /\ Len(sent) = 2
    /\ Len(taken) = 2
    /\ taken[1].op = "try_recv_audio"
    /\ taken[2].op = "recv_audio_decode"

\* C3: a callback invocation that begins while the stop flag is set
\* encodes nothing, sends nothing, leaves the buffer empty and returns; a
\* call of stop changes neither the thread's position nor the stream nor
\* the kill flag, and the thread leaves its pacing loop only with the kill
\* flag set.
StopSilences ==
    [][ /\ (delivered' # delivered /\ stop) =>
              /\ extra' = << >>
              /\ encoded' = encoded
              /\ sent' = sent
              /\ chan' = chan
              /\ cbPc' = "idle"
        /\ (stop' # stop) =>
              /\ threadPc' = threadPc
              /\ streamAlive' = streamAlive
              /\ txAlive' = txAlive
              /\ kill' = kill
        /\ (threadPc \in {"poll", "sleep"} /\ threadPc' \notin {"poll", "sleep"}) => kill
      ]_vars

\* Witness of C3: with the flag set, a callback invocation has dropped a
\* chunk and a buffer remainder after a frame was encoded, and the thread
\* is still in its pacing loop with the stream open.
StopWitness ==
    /\ stop
    /\ discarded
    /\ extra = << >>
    /\ Len(encoded) = 1
    /\ delivered = 40
    /\ threadPc \in {"poll", "sleep"}
    /\ streamAlive

\* C4: no frame handed to the encoder holds a sample delivered before the
\* latest stop(false) call that cleared a set stop flag.
ResumeClean == \A k \in 1..Len(encoded) : ~encoded[k].stale

\* C5: once the kill flag is set (by kill() or by the drop of the session)
\* the capture thread terminates; the pacing loop completes at most one
\* sleep after the store; a terminated thread has dropped the stream and
\* the Sender.
KillTerminates ==
    /\ kill ~> (threadPc \in Terminated)
    /\ [](sleepsSinceKill <= 1)
    /\ []((threadPc \in Terminated) => (~streamAlive /\ ~txAlive))

\* Witness of C5: the thread was asleep in its pacing loop when the flag
\* was set, completed that sleep, polled and returned.
KillWitness ==
    /\ kill
    /\ threadPc = "exited"
    /\ sleepsSinceKill = 1
    /\ delivered > 0

\* C6 as stated: no send happens once the kill flag is set.
NoSendAfterKill == [][kill => sent' = sent]_vars

\* C6, amended: no send happens once the capture thread has returned.
NoSendAfterReturn == [][(threadPc \in Terminated) => sent' = sent]_vars

\* Witness of C6: the thread has returned on the kill flag after packets
\* were sent, and the device has more samples that no callback receives.
NoSendWitness ==
    /\ kill
    /\ threadPc = "exited"
    /\ sent # << >>
    /\ delivered < MaxSamples
    /\ ~streamAlive

\* C7: when no input device is resolved the session exists from the start,
\* the thread returns at its first step without a stream, no packet is ever
\* sent, queued or taken, so no receive operation invokes its sink, and the
\* step of a try_recv operation in progress is its return.
NoDeviceStarves ==
    /\ [](device = NoDevice =>
            /\ threadPc \in {"start", "exited"}
            /\ ~streamAlive
            /\ sent = << >>
            /\ chan = << >>
            /\ taken = << >>
            /\ cbPc = "idle")
    /\ [][(device = NoDevice /\ consPc \in TryOps /\ consPc' # consPc) =>
              (consPc' = "idle" /\ taken' = taken /\ sessionAlive')]_vars

\* Witness of C7: without a device the thread has returned and a
\* try_recv_audio_decode call is in progress.
NoDeviceWitness ==
    /\ device = NoDevice
    /\ sessionAlive
    /\ threadPc = "exited"
    /\ consPc = "try_recv_audio_decode"

\* The thread has computed its frame lengths.
Configured == threadPc \notin {"start", "config"} /\ cfg.ok

\* C8: a resampler exists only when the device's native rate differs from
\* the target rate and is absent only when they are equal; every frame
\* handed to the encoder has the target frame length, and it was made of
\* get_input(device rate) buffered samples, which the iteration removed
\* from the buffer; the encoder gets the resampled block exactly when the
\* rates differ, and otherwise the buffered samples themselves.
ResamplerAndFrameLength ==
    LET target == SampleRate_get_number(settings.sample_rate) * 1000
        n == size(settings.frame_size, settings.sample_rate)
        l == get_input(settings.frame_size, cfg.sample_rate)
    IN  Configured =>
          /\ resamp = "some" => cfg.sample_rate # target
          /\ resamp = "none" => cfg.sample_rate = target
          /\ \A k \in 1..Len(encoded) :
               /\ encoded[k].len = n
               /\ Len(encoded[k].src) = l
               /\ encoded[k].resampled <=> cfg.sample_rate # target
               /\ ~encoded[k].resampled =>
                    encoded[k].len = Len(encoded[k].src)
          /\ cbPc = "idle" => Len(extra) + Len(encoded) * l = delivered

\* Witness of C8: a 44100 Hz device with FS480 at SR48: the encoder was
\* handed a 480-sample frame made of 441 buffered samples.
ResamplerWitness ==
    /\ cfg.sample_rate = 44100
    /\ settings = [frame_size |-> "FS480", sample_rate |-> "SR48"]
    /\ resamp = "some"
    /\ Len(encoded) = 1
    /\ encoded[1].len = 480
    /\ Len(encoded[1].src) = 441
    /\ extra = << >>

\* The sample count at 48 kHz a frame size stands for.
ReferenceCount ==
    [FS2880 |-> 2880, FS1920 |-> 1920, FS960 |-> 960, FS480 |-> 480,
     FS240 |-> 240, FS120 |-> 120]

\* The kilohertz a sample rate stands for.
RateKhz == [SR48 |-> 48, SR24 |-> 24, SR16 |-> 16, SR12 |-> 12, SR8 |-> 8]

\* C9: for every frame size and sample rate the thread's frame length is
\* reference_count * rate_khz / 48 and its pacing interval is
\* reference_count * 1000 / 48, both divisions are exact and both products
\* fit in a usize; FS960 at SR24 gives 480 samples and 20000 microseconds.
FrameArithmeticExact ==
    LET ref == ReferenceCount[settings.frame_size]
        khz == RateKhz[settings.sample_rate]
    IN  Configured =>
          /\ frame_size * 48 = ref * khz
          /\ time * 48 = ref * 1000
          /\ FitsUsize(ref * khz)
          /\ FitsUsize(ref * 1000)
          /\ (ref = 960 /\ khz = 24) => (frame_size = 480 /\ time = 20000)

\* Witness of C9: the thread has computed the lengths of FS960 at SR24.
FrameArithmeticWitness ==
    /\ Configured
    /\ settings = [frame_size |-> "FS960", sample_rate |-> "SR24"]
    /\ frame_size = 480
    /\ time = 20000

\* C10: every packet made of one frame of N = size(frame size, sample
\* rate) samples that a decoding operation handles gives exactly one sink
\* invocation, with a slice of N samples.
RoundTripLength ==
    LET once == << [kind |-> "pcm",
                    len |-> size(settings.frame_size, settings.sample_rate)] >>
    IN  /\ \A i \in 1..Len(taken) :
             taken[i].op \in DecodeOps => taken[i].sink = once
        /\ decoded.data.valid => decoded.sink = once

\* C11: a try_recv_audio or try_recv_audio_decode call in progress can
\* always take its next step (it never waits); a step of it that hands over
\* a packet hands over the oldest queued packet, removes it from the queue
\* and goes on with the call; the call returns exactly when it finds the
\* queue empty, without a sink invocation at that step, and leaves the queue
\* empty.
TryRecvNeverBlocks ==
    /\ [](consPc \in TryOps => ENABLED TryRecvStep)
    /\ [][(consPc \in TryOps) =>
            /\ (taken' # taken) =>
                  /\ chan # << >>
                  /\ Len(taken') = Len(taken) + 1
                  /\ SubSeq(taken', 1, Len(taken)) = taken
                  /\ taken'[Len(taken')].pkt = chan[1]
                  /\ taken'[Len(taken')].op = consPc
                  /\ chan' = SubSeq(chan, 2, Len(chan))
                  /\ consPc' = consPc
            /\ (consPc' # consPc) =>
                  /\ chan = << >>
                  /\ chan' = << >>
                  /\ taken' = taken
                  /\ consPc' = "idle"
       ]_vars

\* Witness of C11: try_recv_audio has handed over the two packets of one
\* callback invocation and returned on the empty queue while the Sender
\* still exists.
TryRecvWitness ==
    /\ consPc = "idle"
    /\ sessionAlive
    /\ txAlive
    /\ chan = << >>
    /\ Len(sent) = 2
    /\ Len(taken) = 2
    /\ taken[1].op = "try_recv_audio"
    /\ taken[2].op = "try_recv_audio"

\* C12: a recv_audio or recv_audio_decode call returns only at a step that
\* finds the queue empty with the Sender dropped, and then every packet
\* sent has been taken; while the Sender exists and the queue is empty the
\* call has no step; once the capture thread has terminated, a call in
\* progress returns.
RecvReturnsOnClose ==
    /\ [][(consPc \in RecvOps /\ consPc' # consPc) =>
            /\ ~txAlive
            /\ chan = << >>
            /\ chan' = << >>
            /\ taken' = taken
            /\ TakenPackets = sent
            /\ consPc' = "idle"
       ]_vars
    /\ []((consPc \in RecvOps /\ txAlive /\ chan = << >>) => ~ENABLED RecvStep)
    /\ (consPc \in RecvOps /\ threadPc \in Terminated) ~> (consPc = "idle")

\* Witness of C12: recv_audio took the two packets sent and returned after
\* the thread had observed the kill flag and dropped the stream.
RecvWitness ==
    /\ consPc = "idle"
    /\ sessionAlive
    /\ kill
    /\ threadPc = "exited"
    /\ ~txAlive
    /\ chan = << >>
    /\ Len(sent) = 2
    /\ Len(taken) = 2
    /\ taken[2].op = "recv_audio"

\* A packet the decoder turns into a non-empty frame that fits the output
\* slice of 2048 samples.
Decodes(p) == p.valid /\ p.n > 0 /\ p.n <= 2048

\* C13: for every packet a decoding operation took, and for the packet of
\* the latest decode() call, the sink was invoked once with the decoded
\* frame when the packet decodes to a non-empty frame and not at all
\* otherwise; the step that takes a packet, decodable or not, leaves the
\* call in progress and the session alive, and the call can take the next
\* queued packet.
DecodeFailureSkipped ==
    /\ [](\A i \in 1..Len(taken) :
            taken[i].op \in DecodeOps =>
                taken[i].sink =
                    IF Decodes(taken[i].pkt)
                      THEN << [kind |-> "pcm", len |-> taken[i].pkt.n] >>
                      ELSE << >>)
    /\ [](decoded # NoCall =>
            decoded.sink =
                IF Decodes(decoded.data)
                  THEN << [kind |-> "pcm", len |-> decoded.data.n] >>
                  ELSE << >>)
    /\ [][(consPc \in DecodeOps /\ taken' # taken) =>
              (consPc' = consPc /\ sessionAlive')]_vars
    /\ []((consPc \in DecodeOps /\ chan # << >>) =>
              ENABLED (TryRecvStep \/ RecvStep))

\* Witness of C13: with FS2880 at SR48 both packets of a two-frame chunk
\* failed to decode: try_recv_audio_decode took the first without a sink
\* invocation, went on to the second and returned.
DecodeFailureWitness ==
    /\ settings = [frame_size |-> "FS2880", sample_rate |-> "SR48"]
    /\ consPc = "idle"
    /\ sessionAlive
    /\ Len(taken) = 2
    /\ taken[1].op = "try_recv_audio_decode"
    /\ taken[2].op = "try_recv_audio_decode"
    /\ taken[1].sink = << >>
    /\ taken[2].sink = << >>
    /\ chan = << >>

ResourceCallCompletes == (resPc \in ResourceOps) ~> (resPc = "idle")

\* C16: the device-side frame length spans exactly the duration of one
\* frame: get_input(device rate) * 48000 = device rate * reference count,
\* and it is at least 1.
InputFrameExact ==
    Configured =>
        /\ input_frame_size * 48000 =
               cfg.sample_rate * ReferenceCount[settings.frame_size]
        /\ input_frame_size >= 1

\* C17: a send that fails happens only with the Receiver dropped, and then
\* every send fails; at the step of a failed send the callback does not
\* panic, the encoder was invoked, the frame is removed from the buffer,
\* nothing is queued, the thread and the stream are untouched, and the
\* callback goes on with the next full frame when the buffer holds one;
\* with the Receiver dropped the stream ends only by the thread's return,
\* which happens only with the kill flag set.
SendFailureSilent ==
    /\ [][(sendErrs' # sendErrs) =>
              /\ ~sessionAlive
              /\ sendErrs' = sendErrs + 1
              /\ cbPc = "running"
              /\ cbPc' \in {"idle", "running"}
              /\ Len(encoded') = Len(encoded) + 1
              /\ Len(sent') = Len(sent) + 1
              /\ extra' = SubSeq(extra, input_frame_size + 1, Len(extra))
              /\ chan' = chan
              /\ threadPc' = threadPc
              /\ streamAlive' = streamAlive
              /\ (Len(extra') >= input_frame_size) <=> (cbPc' = "running")
       ]_vars
    /\ [][(~sessionAlive /\ sent' # sent) => sendErrs' = sendErrs + 1]_vars
    /\ [][(~sessionAlive /\ streamAlive /\ ~streamAlive') =>
              (kill /\ threadPc = "dropping")]_vars
    /\ []((~sessionAlive /\ cbPc = "running") => ENABLED CallbackIter)

\* Witness of C17: after the session was dropped, two sends failed and the
\* callback returned normally with the remainder of its chunks buffered,
\* the stream still open.
SendFailureWitness ==
    /\ ~sessionAlive
    /\ streamAlive
    /\ sendErrs = 2
    /\ cbPc = "idle"
    /\ Len(encoded) = 2
    /\ delivered = 41
    /\ Len(extra) = 1

\* The encoder invocations that returned a non-zero length.
NonZeroEncodes == { k \in 1..Len(encoded) : encoded[k].nonzero }

\* C18: the packets sent are, in order, those of the encoder invocations
\* that returned a non-zero length, one each; at the step of an invocation
\* that returned an error or a zero length nothing is sent or queued, the
\* frame is removed from the buffer once, the callback does not panic and
\* goes on with the next full frame when the buffer holds one.
EncodeFailureSkipped ==
    /\ [](/\ Len(sent) = Cardinality(NonZeroEncodes)
          /\ \A i \in 1..Len(sent) : sent[i].id \in NonZeroEncodes
          /\ \A i \in 1..Len(sent) : \A j \in 1..Len(sent) :
                i < j => sent[i].id < sent[j].id)
    /\ [][(encoded' # encoded /\ ~encoded'[Len(encoded')].nonzero) =>
              /\ Len(encoded') = Len(encoded) + 1
              /\ sent' = sent
              /\ chan' = chan
              /\ sendErrs' = sendErrs
              /\ extra' = SubSeq(extra, input_frame_size + 1, Len(extra))
              /\ cbPc' \in {"idle", "running"}
              /\ (Len(extra') >= input_frame_size) <=> (cbPc' = "running")
       ]_vars

\* Witness of C18: of the two frames of a 41-sample chunk the first gave
\* an error or a zero length and the second a packet: one packet was sent,
\* that of the second frame, and one sample is left in the buffer.
EncodeFailureWitness ==
    /\ cbPc = "idle"
    /\ delivered = 41
    /\ Len(encoded) = 2
    /\ ~encoded[1].nonzero
    /\ encoded[2].nonzero
    /\ Len(sent) = 1
    /\ sent[1].id = 2
    /\ Len(extra) = 1

\* C19: no failure panics: neither the capture thread nor the data callback
\* ever panics, and a thread that has terminated without ever having had a
\* stream has sent no packet.
FailuresHandled ==
    /\ threadPc # "panicked"
    /\ cbPc # "panicked"
    /\ (threadPc \in Terminated /\ delivered = 0) => sent = << >>

====
